---- MODULE Spec2Model ----
(***************************************************************************)
(* Model of the weather-app command line client:                           *)
(*   src/src/weather_app/exceptions.py  the error hierarchy                *)
(*   src/src/weather_app/weather.py     Response Model and WeatherClient   *)
(*   src/src/weather_app/cli.py         format_weather_data and `get`      *)
(*                                                                         *)
(* One run of `weather get LOCATION [options]` is a behaviour.  The        *)
(* command line arguments (args) and the behaviour of the provider and of  *)
(* the file system (env) are chosen in Init; the actions are the steps of  *)
(* cli.get in program order.                                               *)
(*                                                                         *)
(* Encodings.  Python None is <<>> and a present value x is <<x>>.  Text   *)
(* that the program inspects (the location argument, a cod given as a     *)
(* string) is a sequence of one-character strings; text it only passes     *)
(* on is a TLA+ string, and a formatted message is the sequence of its     *)
(* parts.  A JSON scalar is a record [t, n, s]: t is its type, n its value *)
(* when a number, s its characters when a string.                          *)
(***************************************************************************)
EXTENDS Integers, Sequences, FiniteSets, TLC

VARIABLES args, env, pc, client, city, country, requests, weather_data,
          exc, formatted_data, json_output, stdout, stderr, file, exit_code

vars == <<args, env, pc, client, city, country, requests, weather_data,
          exc, formatted_data, json_output, stdout, stderr, file, exit_code>>

----------------------------------------------------------------------------
(* Bounds *)

\* longest LOCATION argument, in characters
MaxLocLen == 5
\* most fields of one response body that are missing or of the wrong type
\* (bodies that only omit fields the data model calls optional are not
\* limited by this)
MaxDefects == 1
\* most entries in the "weather" sequence of a response body
MaxConditions == 1

----------------------------------------------------------------------------
(* Values *)

None == <<>>
Some(x) == <<x>>
IsNone(o) == o = <<>>
Val(o) == o[1]

JInt(n) == [t |-> "int", n |-> n, s |-> <<>>]
JStr(s) == [t |-> "str", n |-> 0, s |-> s]
JAbsent == [t |-> "absent", n |-> 0, s |-> <<>>]
JList == [t |-> "list", n |-> 0, s |-> <<>>]

Digits == <<"0", "1", "2", "3", "4", "5", "6", "7", "8", "9">>

IsDigit(c) == \E i \in 1..10 : Digits[i] = c

DigitVal(c) == (CHOOSE i \in 1..10 : Digits[i] = c) - 1

\* Python int(s) for a str s accepts a non-empty run of decimal digits
IsNumeric(s) == Len(s) > 0 /\ \A i \in 1..Len(s) : IsDigit(s[i])

RECURSIVE StrToInt(_)
StrToInt(s) ==
    IF Len(s) = 0 THEN 0
    ELSE 10 * StrToInt(SubSeq(s, 1, Len(s) - 1)) + DigitVal(s[Len(s)])

\* Python str(x) of a status code, as it appears in an f-string
StatusText(j) ==
    CASE j.t = "int" -> ToString(j.n)
      [] j.t = "null" -> "None"
      [] j.t = "list" -> "[]"
      [] OTHER -> "?"

----------------------------------------------------------------------------
(* exceptions.py *)

Raised(kind, status_code, message, text) ==
    [kind |-> kind, status_code |-> status_code, message |-> message,
     text |-> text]

NoExc == Raised("none", JAbsent, "", <<>>)

\* APIError.__init__(self, status_code, message) and the classes that
\* inherit it unchanged
APIErrorInit(kind, status_code, message) ==
    Raised(kind, status_code, message,
           <<"API Error ", StatusText(status_code), ": ", message>>)

APIError(status_code, message) == APIErrorInit("APIError", status_code, message)

RateLimitExceededError(status_code, message) ==
    APIErrorInit("RateLimitExceededError", status_code, message)

\* Exception.__init__ with one argument: str(e) is that argument
PlainError(kind, text) == Raised(kind, JAbsent, "", text)

LocationNotFoundError(text) == PlainError("LocationNotFoundError", text)

\* InvalidAPIKeyError.__init__(self, message): a call with any other number
\* of positional arguments is a Python TypeError
InvalidAPIKeyError(posargs) ==
    IF Len(posargs) = 1
    THEN APIErrorInit("InvalidAPIKeyError", JInt(401), posargs[1])
    ELSE PlainError("TypeError",
             <<"InvalidAPIKeyError.__init__() takes 2 positional arguments but ",
               ToString(Len(posargs) + 1), " were given">>)

APIErrorKinds == {"APIError", "InvalidAPIKeyError", "RateLimitExceededError"}

WeatherAppErrorKinds ==
    APIErrorKinds \cup {"LocationNotFoundError", "ConfigurationError"}

\* isinstance(e, exceptions.WeatherAppError)
IsWeatherAppError(e) == e.kind \in WeatherAppErrorKinds

\* isinstance(e, exceptions.InvalidAPIKeyError)
IsInvalidAPIKeyError(e) == e.kind = "InvalidAPIKeyError"

----------------------------------------------------------------------------
(* config.py *)

\* Settings.REQUEST_TIMEOUT, seconds
REQUEST_TIMEOUT == 10

\* Settings.OPENWEATHER_API_KEY as loaded when the package was imported
SettingsApiKey == "envkey"

----------------------------------------------------------------------------
(* weather.py: the Response Model *)

\* fields declared without a default, by their path in the JSON body;
\* "weather[].x" is field x of an entry of the "weather" list
RequiredFields ==
    {"coord", "weather", "base", "main", "visibility", "wind", "clouds", "dt",
     "sys", "timezone", "id", "name",
     "weather[].id", "weather[].main", "weather[].description", "weather[].icon",
     "main.temp", "main.feels_like", "main.temp_min", "main.temp_max",
     "main.pressure", "main.humidity",
     "wind.speed", "wind.deg",
     "clouds.all",
     "sys.country", "sys.sunrise", "sys.sunset"}

\* fields declared Optional[...] = None
OptionalFields ==
    {"main.sea_level", "main.grnd_level", "wind.gust", "sys.type", "sys.id"}

ModelFields == RequiredFields \cup OptionalFields

ConditionFields ==
    {"weather[].id", "weather[].main", "weather[].description", "weather[].icon"}

\* A response body.  cod and message are its status fields; every field of
\* ModelFields is present with a value of its declared type unless it is in
\* missing (no such key) or in wrong (a value the declared type rejects).
\* weatherLen is the length of the "weather" list, coordKeys the keys of the
\* "coord" mapping, visibility its number of metres, rain/snow the extra
\* keys the provider adds when it rains or snows.
Body(cod, message, missing, wrong, weatherLen, coordKeys, visibility, rain, snow) ==
    [cod |-> cod, message |-> message, missing |-> missing, wrong |-> wrong,
     weatherLen |-> weatherLen, coordKeys |-> coordKeys,
     visibility |-> visibility, rain |-> rain, snow |-> snow]

\* pydantic validates a field when the body reaches it: the fields of a
\* list entry are validated once per entry
Validated(f, body) == f \in ConditionFields => body.weatherLen > 0

\* cod: int accepts an int, and a numeric str in pydantic's default mode
CodValidates(cod) ==
    \/ cod.t = "int"
    \/ cod.t = "str" /\ IsNumeric(cod.s)

\* WeatherResponse(**data) raises pydantic.ValidationError
FailsValidation(body) ==
    \/ \E f \in RequiredFields :
          Validated(f, body) /\ f \in body.missing \cup body.wrong
    \/ \E f \in OptionalFields : f \in body.wrong
    \/ ~CodValidates(body.cod)

\* the model instance WeatherResponse(**data) builds from a body that
\* validates: nulls are the Optional fields left at their default None; keys
\* the model does not declare (rain, snow, message) are ignored
WeatherResponse(body) ==
    [coord |-> body.coordKeys,
     weatherLen |-> body.weatherLen,
     visibility |-> body.visibility,
     nulls |-> OptionalFields \cap body.missing,
     attrs |-> ModelFields \cup {"cod"},
     cod |-> IF body.cod.t = "int" THEN body.cod.n ELSE StrToInt(body.cod.s)]

NoReport ==
    [coord |-> {}, weatherLen |-> 0, visibility |-> 0, nulls |-> {},
     attrs |-> {}, cod |-> 0]

----------------------------------------------------------------------------
(* weather.py: WeatherClient *)

\* WeatherClient.__init__: x or y is y when x is None or empty
NewWeatherClient(api_key) ==
    [api_key |-> IF IsNone(api_key) \/ Val(api_key) = "" THEN SettingsApiKey
                 ELSE Val(api_key),
     session |-> "open"]

NoClient == [api_key |-> "", session |-> "none"]

\* QueryTerm without the country code; C7 does not hold of it
QueryTermCityOnly(c, country_code) == c

\* params['q']: country_code is used when it is neither None nor empty
QueryTerm(c, country_code) ==
    IF ~IsNone(country_code) /\ Val(country_code) # <<>>
    THEN c \o <<",">> \o Val(country_code)
    ELSE c

\* data.get('cod') != 200 is False only for the number 200
CodIsSuccess(cod) == cod.t = "int" /\ cod.n = 200

\* data.get('cod', 500)
CodOrDefault(cod) == IF cod.t = "absent" THEN JInt(500) ELSE cod

\* data.get('message', 'Unknown error')
MessageOrDefault(message) ==
    IF IsNone(message) THEN "Unknown error" ELSE Val(message)

\* status_code == n for the status code after the conversion
StatusIs(status_code_int, n) ==
    status_code_int.t = "int" /\ status_code_int.n = n

\* _handle_api_error without the conversion of a str status code, which then
\* equals no number; C2 does not hold of it
HandleApiErrorUnconverted(status_code, message) ==
    IF StatusIs(status_code, 401)
    THEN InvalidAPIKeyError(<<status_code, message>>)
    ELSE IF StatusIs(status_code, 404)
    THEN LocationNotFoundError(<<"Location not found: ", message>>)
    ELSE IF StatusIs(status_code, 429)
    THEN RateLimitExceededError(status_code, message)
    ELSE APIError(status_code, message)

\* _handle_api_error: the exception it ends with
HandleApiError(status_code, message) ==
    IF status_code.t = "str" /\ ~IsNumeric(status_code.s)
    THEN PlainError("ValueError", <<"invalid literal for int() with base 10">>)
    ELSE LET status_code_int == IF status_code.t = "str"
                                THEN JInt(StrToInt(status_code.s))
                                ELSE status_code
         IN  IF StatusIs(status_code_int, 401)
             THEN InvalidAPIKeyError(<<status_code_int, message>>)
             ELSE IF StatusIs(status_code_int, 404)
             THEN LocationNotFoundError(<<"Location not found: ", message>>)
             ELSE IF StatusIs(status_code_int, 429)
             THEN RateLimitExceededError(status_code_int, message)
             ELSE APIError(status_code_int, message)

\* the transport failures requests raises as RequestException: from
\* session.get (ConnectionError, Timeout), from raise_for_status (HTTPError)
\* and from response.json (JSONDecodeError)
TransportFailures == {"ConnectionError", "Timeout", "HTTPError", "JSONDecodeError"}

\* e.response of a RequestException: only raise_for_status attaches the
\* response, whose status_code is the HTTP status
ExcResponse(provider) ==
    IF provider.transport = "HTTPError" THEN Some(provider.status) ELSE None

\* the except clause with a fixed status 500; C6 does not hold of it
StatusAlways500(response) == JInt(500)

\* getattr(e.response, 'status_code', 500)
StatusOrDefault(response) ==
    IF IsNone(response) THEN JInt(500) ELSE JInt(Val(response))

\* the except clause of get_weather_by_city
WrapRequestException(provider) ==
    APIError(StatusOrDefault(ExcResponse(provider)), provider.text)

Returned(v) == [ok |-> TRUE, value |-> v, exc |-> NoExc]
Raises(e) == [ok |-> FALSE, value |-> NoReport, exc |-> e]

\* the request get_weather_by_city sends
Params(self, c, country_code, units, lang) ==
    [q |-> QueryTerm(c, country_code), appid |-> self.api_key,
     units |-> units, lang |-> lang, timeout |-> REQUEST_TIMEOUT]

\* a client that reads the body's cod before it looks at the HTTP status; C18
\* does not hold of it
HandleResponseBodyFirst(provider) ==
    IF provider.transport \in TransportFailures \ {"HTTPError"}
    THEN Raises(WrapRequestException(provider))
    ELSE LET data == provider.body
         IN  IF ~CodIsSuccess(data.cod)
             THEN Raises(HandleApiError(CodOrDefault(data.cod),
                                        MessageOrDefault(data.message)))
             ELSE IF provider.transport = "HTTPError"
             THEN Raises(WrapRequestException(provider))
             ELSE IF FailsValidation(data)
             THEN Raises(PlainError("ValidationError",
                                    <<"validation error for WeatherResponse">>))
             ELSE Returned(WeatherResponse(data))

\* get_weather_by_city from the response on: what it returns or raises
HandleResponse(provider) ==
    IF provider.transport \in TransportFailures
    THEN Raises(WrapRequestException(provider))
    ELSE LET data == provider.body
         IN  IF ~CodIsSuccess(data.cod)
             THEN Raises(HandleApiError(CodOrDefault(data.cod),
                                        MessageOrDefault(data.message)))
             ELSE IF FailsValidation(data)
             THEN Raises(PlainError("ValidationError",
                                    <<"validation error for WeatherResponse">>))
             ELSE Returned(WeatherResponse(data))

----------------------------------------------------------------------------
(* cli.py: format_weather_data *)

\* f"{visibility / 1000:.1f} km" if visibility else 'N/A'
VisibilityText(visibility) ==
    IF visibility = 0 THEN <<"N/A">>
    ELSE LET tenths == (visibility + 50) \div 100
         IN  <<ToString(tenths \div 10), ".", ToString(tenths % 10), " km">>

\* x.f if hasattr(x, 'f') else None, for a field f of the model instance
AttrOrNone(wd, f, present) ==
    IF f \in wd.attrs /\ f \notin wd.nulls
    THEN Some(present) ELSE None

NoTree ==
    [temp_unit |-> "", wind_speed |-> <<>>, visibility |-> <<>>,
     degree |-> None, gust |-> None, rain |-> None, snow |-> None,
     timezone |-> None, timestamp |-> ""]

Formatted(t) == [ok |-> TRUE, value |-> t, exc |-> NoExc]
FormatRaises(e) == [ok |-> FALSE, value |-> NoTree, exc |-> e]

\* a formatter labelling every temperature as metric; C13 does not hold of it
TempUnitAlwaysMetric(units) == "°C"

\* temp_unit = '°C' if units == 'metric' else '°F'
TempUnit(units) == IF units = "metric" THEN "°C" ELSE "°F"

\* speed_unit = 'm/s' if units == 'metric' else 'mph'
SpeedUnit(units) == IF units = "metric" THEN "m/s" ELSE "mph"

\* format_weather_data: the output tree, or the exception a subscript raises
FormatWeatherData(wd, units, now) ==
    LET temp_unit == TempUnit(units)
        speed_unit == SpeedUnit(units)
    IN  IF "lat" \notin wd.coord
        THEN FormatRaises(PlainError("KeyError", <<"'lat'">>))
        ELSE IF "lon" \notin wd.coord
        THEN FormatRaises(PlainError("KeyError", <<"'lon'">>))
        ELSE IF wd.weatherLen = 0
        THEN FormatRaises(PlainError("IndexError", <<"list index out of range">>))
        ELSE Formatted(
               [temp_unit |-> temp_unit,
                wind_speed |-> <<"speed", " ", speed_unit>>,
                visibility |-> VisibilityText(wd.visibility),
                degree |-> AttrOrNone(wd, "wind.deg", "deg"),
                gust |-> AttrOrNone(wd, "wind.gust", "gust"),
                rain |-> AttrOrNone(wd, "rain", "rain"),
                snow |-> AttrOrNone(wd, "snow", "snow"),
                timezone |-> AttrOrNone(wd, "timezone", "timezone"),
                timestamp |-> now])

\* json.dumps(formatted_data, indent=2 if pretty else None, ensure_ascii=False)
JsonDumps(formatted, pretty) ==
    [tree |-> formatted, indent |-> IF pretty THEN 2 ELSE 0]

NoOutput == [tree |-> NoTree, indent |-> 0]

----------------------------------------------------------------------------
(* cli.py: the location argument *)

\* ',' in location
Contains(s, c) == \E i \in 1..Len(s) : s[i] = c

\* index of the first c in s, or 0
RECURSIVE Find(_, _, _)
Find(s, c, i) ==
    IF i > Len(s) THEN 0
    ELSE IF s[i] = c THEN i
    ELSE Find(s, c, i + 1)

\* str.split(sep)
RECURSIVE Split(_, _)
Split(s, sep) ==
    LET i == Find(s, sep, 1)
    IN  IF i = 0 THEN <<s>>
        ELSE <<SubSeq(s, 1, i - 1)>> \o Split(SubSeq(s, i + 1, Len(s)), sep)

RECURSIVE LStrip(_)
LStrip(s) ==
    IF Len(s) > 0 /\ s[1] = " " THEN LStrip(Tail(s)) ELSE s

RECURSIVE RStrip(_)
RStrip(s) ==
    IF Len(s) > 0 /\ s[Len(s)] = " " THEN RStrip(SubSeq(s, 1, Len(s) - 1)) ELSE s

\* str.strip()
Strip(s) == RStrip(LStrip(s))

\* [p.strip() for p in location.split(',')]
LocationParts(location) ==
    LET parts == Split(location, ",")
    IN  [i \in 1..Len(parts) |-> Strip(parts[i])]

\* a split that lets a given --country option win over the country in the
\* location; C19 does not hold of it
SplitLocationOptionWins(location, country_option) ==
    IF Contains(location, ",")
    THEN LET location_parts == LocationParts(location)
         IN  [city |-> location_parts[1],
              country |-> IF IsNone(country_option)
                          THEN Some(location_parts[2])
                          ELSE country_option]
    ELSE [city |-> location, country |-> country_option]

\* the city and country that get passes to the client
SplitLocation(location, country_option) ==
    IF Contains(location, ",")
    THEN LET location_parts == LocationParts(location)
         IN  [city |-> location_parts[1],
              country |-> IF Len(location_parts) > 1
                          THEN Some(location_parts[2])
                          ELSE country_option]
    ELSE [city |-> location, country |-> country_option]

\* api_key is None, which lets an empty key through; C8 does not hold of it
KeyMissingNoneOnly(api_key) == IsNone(api_key)

\* not api_key
KeyMissing(api_key) == IsNone(api_key) \/ Val(api_key) = ""

\* the message get prints for a WeatherAppError
ErrorLine(e) ==
    IF IsInvalidAPIKeyError(e)
    THEN <<"Error: ", "Invalid or missing API key. Please set the OPENWEATHER_API_KEY environment variable or use the --api-key option.">>
    ELSE <<"Error: ">> \o e.text

\* the message get prints for any other exception
UnexpectedLine(e) == <<"Unexpected error: ">> \o e.text

----------------------------------------------------------------------------
(* The runs that are checked: arguments of get, and what the provider and   *)
(* the file system do in the run                                            *)

Arguments(api_key, location, country_option, units, output, pretty) ==
    [api_key |-> api_key, location |-> location, country |-> country_option,
     units |-> units, output |-> output, pretty |-> pretty]

\* a response: transport is "ok" or the RequestException raised, status the
\* HTTP status (0 when no response arrived), text the str() of the exception
Provider(transport, status, body, text) ==
    [transport |-> transport, status |-> status, body |-> body, text |-> text]

\* io is the fault of the output destination: "none"; "open" (open() raises);
\* "write" (the write raises, nothing written); "partial" (the write raises
\* after part of the text was written)
Environment(provider, io, file_exists) ==
    [provider |-> provider, io |-> io, file_exists |-> file_exists,
     now |-> "now"]

Scenario(a, e) == [args |-> a, env |-> e]

DefaultArgs == Arguments(Some("k"), <<"a">>, None, "metric", None, TRUE)

FullBody(cod, message) ==
    Body(cod, message, {}, {}, 1, {"lat", "lon"}, 10000, None, None)

\* a body that holds nothing but cod and message
ErrorBody(cod, message) ==
    Body(cod, message, ModelFields, {}, 0, {}, 0, None, None)

Ok(body) == Provider("ok", 200, body, "")

CodNumbers == {200, 401, 404, 429, 500}

CodStrings ==
    {<<"2", "0", "0">>, <<"4", "0", "1">>, <<"4", "0", "4">>,
     <<"4", "2", "9">>, <<"5", "0", "0">>, <<"x">>}

CodValues ==
    {JInt(n) : n \in CodNumbers} \cup {JStr(d) : d \in CodStrings}
        \cup {JAbsent, JList}

Messages == {None, Some("city not found")}

HttpErrorStatuses == {401, 404, 429, 500}

\* every response the status dispatch can see, with and without a transport
\* failure
DispatchProviders ==
    {Ok(b) : b \in {FullBody(c, m) : c \in CodValues, m \in Messages}
                   \cup {ErrorBody(c, m) : c \in CodValues, m \in Messages}}
    \cup {Provider("ConnectionError", 0, ErrorBody(JAbsent, None), "Connection refused"),
          Provider("Timeout", 0, ErrorBody(JAbsent, None), "Read timed out"),
          Provider("JSONDecodeError", 200, ErrorBody(JAbsent, None), "Expecting value")}
    \cup {Provider("HTTPError", h, ErrorBody(c, m), "Client Error for url") :
             h \in HttpErrorStatuses, c \in CodValues, m \in Messages}

RECURSIVE SubsetsUpTo(_, _)
SubsetsUpTo(S, k) ==
    IF k = 0 THEN {{}}
    ELSE LET smaller == SubsetsUpTo(S, k - 1)
         IN  smaller \cup {p \cup {x} : p \in smaller, x \in S}

\* the fields section 3 of the data model describes as optional
OmittableFields ==
    {"visibility", "wind.deg", "timezone", "wind.gust", "main.sea_level",
     "main.grnd_level", "sys.type", "sys.id"}

DefectCods == {JInt(200), JStr(<<"2", "0", "0">>), JAbsent, JInt(404)}

\* bodies with at most MaxDefects fields missing or of the wrong type
DefectBodies ==
    UNION {{Body(c, None, d \ w, w, 1, {"lat", "lon"}, 10000, None, None) :
               c \in DefectCods, w \in SUBSET d} :
           d \in SubsetsUpTo(ModelFields, MaxDefects)}

\* bodies that omit any subset of the fields the data model calls optional
OmittingBodies ==
    {Body(JInt(200), None, m, {}, 1, {"lat", "lon"}, 10000, None, None) :
        m \in SUBSET OmittableFields}

\* bodies that differ in what format_weather_data reads
FormatBodies ==
    {Body(JInt(200), None, {}, {}, n, k, v, r, sn) :
        n \in 0..MaxConditions, k \in SUBSET {"lat", "lon"}, v \in {0, 10000},
        r \in {None, Some("1h")}, sn \in {None, Some("1h")}}

LocChars == {"a", ",", " "}

\* every LOCATION argument of at most MaxLocLen characters
Locations == UNION {[1..n -> LocChars] : n \in 0..MaxLocLen}

CountryOptions == {None, Some(<<>>), Some(<<"u">>)}

IoFaults == {"none", "open", "write", "partial"}

\* the responses the command line runs are checked with
CliProviders ==
    {Ok(FullBody(JInt(200), None)),
     Ok(Body(JInt(200), None, {}, {}, 0, {"lat", "lon"}, 10000, None, None)),
     Ok(Body(JInt(200), None, {}, {}, 1, {"lon"}, 10000, None, None)),
     Ok(Body(JInt(200), None, {"wind.deg"}, {}, 1, {"lat", "lon"}, 10000, None, None)),
     Ok(ErrorBody(JInt(401), Some("Invalid API key"))),
     Ok(ErrorBody(JStr(<<"4", "0", "4">>), Some("city not found"))),
     Ok(ErrorBody(JInt(429), None)),
     Provider("HTTPError", 401, ErrorBody(JInt(401), Some("Invalid API key")),
              "Client Error for url"),
     Provider("Timeout", 0, ErrorBody(JAbsent, None), "Read timed out")}

Scenarios ==
    {Scenario(DefaultArgs, Environment(p, "none", FALSE)) :
        p \in DispatchProviders}
    \cup {Scenario(DefaultArgs, Environment(Ok(b), "none", FALSE)) :
        b \in DefectBodies \cup OmittingBodies}
    \cup {Scenario(Arguments(Some("k"), <<"a">>, None, u, None, pr),
                   Environment(Ok(b), "none", FALSE)) :
        u \in {"metric", "imperial"}, pr \in BOOLEAN, b \in FormatBodies}
    \cup {Scenario(Arguments(Some("k"), l, c, "metric", None, TRUE),
                   Environment(Ok(FullBody(JInt(200), None)), "none", FALSE)) :
        l \in Locations, c \in CountryOptions}
    \cup {Scenario(Arguments(k, l, c, u, o, TRUE), Environment(p, io, fe)) :
        k \in {None, Some(""), Some("k")},
        l \in {<<"a">>, <<"a", ",", "u">>},
        c \in {None, Some(<<"u">>)},
        u \in {"metric", "imperial"},
        o \in {None, Some("out.json")},
        p \in CliProviders, io \in IoFaults, fe \in BOOLEAN}

----------------------------------------------------------------------------
(* cli.py: get, step by step.  Init is the state in which get starts: the   *)
(* package is imported (config.settings is loaded) and click has parsed    *)
(* the options into the parameters of get.                                  *)

NoFile == [state |-> "absent", content |-> NoOutput]
OldFile == [state |-> "old", content |-> NoOutput]

Init ==
    \E sc \in Scenarios :
        /\ args = sc.args
        /\ env = sc.env
        /\ pc = "check_key"
        /\ client = NoClient
        /\ city = <<>>
        /\ country = sc.args.country
        /\ requests = <<>>
        /\ weather_data = NoReport
        /\ exc = NoExc
        /\ formatted_data = NoTree
        /\ json_output = NoOutput
        /\ stdout = <<>>
        /\ stderr = <<>>
        /\ file = IF sc.env.file_exists THEN OldFile ELSE NoFile
        /\ exit_code = None

\* if not api_key: raise exceptions.InvalidAPIKeyError("API key is required")
CheckKey ==
    /\ pc = "check_key"
    /\ IF KeyMissing(args.api_key)
       THEN /\ exc' = InvalidAPIKeyError(<<"API key is required">>)
            /\ pc' = "except"
       ELSE /\ exc' = exc
            /\ pc' = "new_client"
    /\ UNCHANGED <<args, env, client, city, country, requests, weather_data,
                   formatted_data, json_output, stdout, stderr, file, exit_code>>

\* client = WeatherClient(api_key=api_key)
NewClient ==
    /\ pc = "new_client"
    /\ client' = NewWeatherClient(args.api_key)
    /\ pc' = "split"
    /\ UNCHANGED <<args, env, city, country, requests, weather_data, exc,
                   formatted_data, json_output, stdout, stderr, file, exit_code>>

\* if ',' in location: ... else: city = location
SplitArgument ==
    /\ pc = "split"
    /\ city' = SplitLocation(args.location, country).city
    /\ country' = SplitLocation(args.location, country).country
    /\ pc' = "fetch"
    /\ UNCHANGED <<args, env, client, requests, weather_data, exc,
                   formatted_data, json_output, stdout, stderr, file, exit_code>>

\* a client that sends the request a second time when the first attempt
\* fails; C17 does not hold of it
GetWeatherByCityRetrying ==
    /\ pc = "fetch"
    /\ LET request == Params(client, city, country, args.units, "en")
           r == HandleResponse(env.provider)
       IN  /\ requests' = IF r.ok THEN Append(requests, request)
                          ELSE Append(Append(requests, request), request)
           /\ weather_data' = r.value
           /\ exc' = r.exc
           /\ pc' = IF r.ok THEN "format" ELSE "except"
    /\ UNCHANGED <<args, env, client, city, country, formatted_data,
                   json_output, stdout, stderr, file, exit_code>>

\* weather_data = client.get_weather_by_city(city=city, country_code=country,
\* units=units): the request is sent, the response handled
GetWeatherByCity ==
    /\ pc = "fetch"
    /\ requests' = Append(requests, Params(client, city, country, args.units, "en"))
    /\ LET r == HandleResponse(env.provider)
       IN  /\ weather_data' = r.value
           /\ exc' = r.exc
           /\ pc' = IF r.ok THEN "format" ELSE "except"
    /\ UNCHANGED <<args, env, client, city, country, formatted_data,
                   json_output, stdout, stderr, file, exit_code>>

\* formatted_data = format_weather_data(...); json_output = json.dumps(...)
FormatOutput ==
    /\ pc = "format"
    /\ LET r == FormatWeatherData(weather_data, args.units, env.now)
       IN  /\ formatted_data' = r.value
           /\ json_output' = IF r.ok THEN JsonDumps(r.value, args.pretty)
                             ELSE json_output
           /\ exc' = r.exc
           /\ pc' = IF r.ok THEN "write" ELSE "except"
    /\ UNCHANGED <<args, env, client, city, country, requests, weather_data,
                   stdout, stderr, file, exit_code>>

\* what click.echo(text) puts on a stream: the text and a newline (nl), or,
\* when the stream fails under it, part of the text
Whole(text) == [text |-> text, part |-> "whole", nl |-> TRUE]
Partial(text) == [text |-> text, part |-> "partial", nl |-> FALSE]

\* get with the report written to the file and echoed as well; C12 does not
\* hold of it
WriteOutputAlsoEchoes ==
    /\ pc = "write"
    /\ IF ~IsNone(args.output)
       THEN /\ file' = CASE env.io = "open" -> file
                         [] env.io = "write" ->
                                [state |-> "truncated", content |-> NoOutput]
                         [] env.io = "partial" ->
                                [state |-> "partial", content |-> json_output]
                         [] OTHER -> [state |-> "written", content |-> json_output]
            /\ stdout' = IF env.io = "none"
                         THEN Append(stdout, Whole(json_output))
                         ELSE stdout
            /\ stderr' = IF env.io = "none"
                         THEN Append(stderr, <<"Weather data saved to ", Val(args.output)>>)
                         ELSE stderr
            /\ exc' = CASE env.io = "open" ->
                               PlainError("PermissionError", <<"Permission denied">>)
                        [] env.io \in {"write", "partial"} ->
                               PlainError("OSError", <<"File system error">>)
                        [] OTHER -> exc
       ELSE /\ file' = file
            /\ stdout' = CASE env.io = "partial" -> Append(stdout, Partial(json_output))
                           [] env.io = "write" -> stdout
                           [] OTHER -> Append(stdout, Whole(json_output))
            /\ stderr' = stderr
            /\ exc' = IF env.io \in {"write", "partial"}
                      THEN PlainError("OSError", <<"Broken pipe">>)
                      ELSE exc
    /\ pc' = IF exc' = NoExc THEN "exited" ELSE "except"
    /\ exit_code' = IF exc' = NoExc THEN Some(0) ELSE exit_code
    /\ UNCHANGED <<args, env, client, city, country, requests, weather_data,
                   formatted_data, json_output>>

\* if output: with open(output, 'w') as f: f.write(json_output);
\* click.echo(saved, err=True) else: click.echo(json_output); then get returns
WriteOutput ==
    /\ pc = "write"
    /\ IF ~IsNone(args.output)
       THEN /\ file' = CASE env.io = "open" -> file
                         [] env.io = "write" ->
                                [state |-> "truncated", content |-> NoOutput]
                         [] env.io = "partial" ->
                                [state |-> "partial", content |-> json_output]
                         [] OTHER -> [state |-> "written", content |-> json_output]
            /\ stdout' = stdout
            /\ stderr' = IF env.io = "none"
                         THEN Append(stderr, <<"Weather data saved to ", Val(args.output)>>)
                         ELSE stderr
            /\ exc' = CASE env.io = "open" ->
                               PlainError("PermissionError", <<"Permission denied">>)
                        [] env.io \in {"write", "partial"} ->
                               PlainError("OSError", <<"File system error">>)
                        [] OTHER -> exc
       ELSE /\ file' = file
            /\ stdout' = CASE env.io = "partial" -> Append(stdout, Partial(json_output))
                           [] env.io = "write" -> stdout
                           [] OTHER -> Append(stdout, Whole(json_output))
            /\ stderr' = stderr
            /\ exc' = IF env.io \in {"write", "partial"}
                      THEN PlainError("OSError", <<"Broken pipe">>)
                      ELSE exc
    /\ pc' = IF exc' = NoExc THEN "exited" ELSE "except"
    /\ exit_code' = IF exc' = NoExc THEN Some(0) ELSE exit_code
    /\ UNCHANGED <<args, env, client, city, country, requests, weather_data,
                   formatted_data, json_output>>

\* except exceptions.WeatherAppError as e: ... sys.exit(1)
HandleWeatherAppError ==
    /\ pc = "except"
    /\ IsWeatherAppError(exc)
    /\ stderr' = Append(stderr, ErrorLine(exc))
    /\ exit_code' = Some(1)
    /\ pc' = "exited"
    /\ UNCHANGED <<args, env, client, city, country, requests, weather_data,
                   exc, formatted_data, json_output, stdout, file>>

\* the last except clause without sys.exit(1): get returns and the exit code
\* is 0; C10 does not hold of it
HandleExceptionExitsZero ==
    /\ pc = "except"
    /\ ~IsWeatherAppError(exc)
    /\ stderr' = Append(stderr, UnexpectedLine(exc))
    /\ exit_code' = Some(0)
    /\ pc' = "exited"
    /\ UNCHANGED <<args, env, client, city, country, requests, weather_data,
                   exc, formatted_data, json_output, stdout, file>>

\* except Exception as e: ... sys.exit(1)
HandleException ==
    /\ pc = "except"
    /\ ~IsWeatherAppError(exc)
    /\ stderr' = Append(stderr, UnexpectedLine(exc))
    /\ exit_code' = Some(1)
    /\ pc' = "exited"
    /\ UNCHANGED <<args, env, client, city, country, requests, weather_data,
                   exc, formatted_data, json_output, stdout, file>>

Next ==
    \/ CheckKey
    \/ NewClient
    \/ SplitArgument
    \/ GetWeatherByCity
    \/ FormatOutput
    \/ WriteOutput
    \/ HandleWeatherAppError
    \/ HandleException

Spec == Init /\ [][Next]_vars

----------------------------------------------------------------------------
(* What a state shows of the run *)

Range(s) == {s[i] : i \in 1..Len(s)}

\* get_weather_by_city was called and has ended
FetchDone == Len(requests) = 1

FetchReturned == FetchDone /\ weather_data # NoReport

\* it raised: exc is what it raised, since nothing runs after it but the
\* except clauses
FetchRaised == FetchDone /\ weather_data = NoReport

TransportOk == env.provider.transport = "ok"

CodIs(n, digits) ==
    \/ env.provider.body.cod = JInt(n)
    \/ env.provider.body.cod = JStr(digits)

Exited == pc = "exited"

CredentialLine ==
    <<"Error: ", "Invalid or missing API key. Please set the OPENWEATHER_API_KEY environment variable or use the --api-key option.">>

----------------------------------------------------------------------------
(* Claims *)

\* C1: when the HTTP call returns without a transport error and the body's
\* cod is 401, get_weather_by_city ends by raising InvalidAPIKeyError and no
\* other kind of exception.
C1_Cod401RaisesInvalidAPIKeyError ==
    (TransportOk /\ CodIs(401, <<"4", "0", "1">>) /\ FetchDone)
        => (FetchRaised /\ exc.kind = "InvalidAPIKeyError")

\* C2: when the HTTP call returns without a transport error and the body's
\* cod is 404, as the string "404" or the integer 404, get_weather_by_city
\* raises LocationNotFoundError and its message contains the provider's
\* message text.
C2_Cod404RaisesLocationNotFound ==
    (TransportOk /\ CodIs(404, <<"4", "0", "4">>) /\ FetchDone)
        => /\ FetchRaised
           /\ exc.kind = "LocationNotFoundError"
           /\ ~IsNone(env.provider.body.message)
                 => Val(env.provider.body.message) \in Range(exc.text)

C2_Witness ==
    /\ TransportOk
    /\ env.provider.body.cod = JStr(<<"4", "0", "4">>)
    /\ env.provider.body.message = Some("city not found")
    /\ FetchRaised
    /\ exc.text = <<"Location not found: ", "city not found">>

\* a body whose status reports no provider failure: cod is the number 200,
\* or there is no cod
CodReportsNoFailure ==
    \/ env.provider.body.cod = JInt(200)
    \/ env.provider.body.cod = JAbsent

\* some field the Response Model requires is missing or of the wrong type
LacksRequiredField ==
    \/ env.provider.body.cod = JAbsent
    \/ \E f \in RequiredFields \ ConditionFields :
          f \in env.provider.body.missing \cup env.provider.body.wrong

\* C3: a body received without a transport error that lacks a field the
\* Response Model requires (cod included), or carries it with the wrong
\* type, makes get_weather_by_city fail with the validation error kind and
\* never with a kind derived from the provider status.
C3_MissingFieldIsValidationError ==
    (TransportOk /\ CodReportsNoFailure /\ LacksRequiredField /\ FetchDone)
        => /\ FetchRaised
           /\ exc.kind = "ValidationError"
           /\ exc.kind \notin APIErrorKinds \cup {"LocationNotFoundError"}

\* a payload that has every required field and omits only fields the data
\* model calls optional
OmitsOnlyOptional ==
    /\ TransportOk
    /\ env.provider.body.cod = JInt(200)
    /\ env.provider.body.missing \subseteq OmittableFields
    /\ env.provider.body.wrong = {}

\* C4: for a payload that has all required fields and omits any subset of
\* the fields the data model calls optional, construction of the report
\* succeeds and each omitted field is null in the result.
C4_OptionalFieldsDefaultToNull ==
    (OmitsOnlyOptional /\ FetchDone)
        => /\ FetchReturned
           /\ env.provider.body.missing \subseteq weather_data.nulls

\* the same response with cod in the other representation: the number for a
\* numeric string, the string of its digits for a number of the table
OtherRepresentation(cod) ==
    IF cod.t = "str" THEN JInt(StrToInt(cod.s))
    ELSE JStr(CHOOSE d \in CodStrings : IsNumeric(d) /\ StrToInt(d) = cod.n)

Twin(provider) ==
    [provider EXCEPT !.body.cod = OtherRepresentation(provider.body.cod)]

HasTwin ==
    \/ env.provider.body.cod.t = "int"
    \/ env.provider.body.cod.t = "str" /\ IsNumeric(env.provider.body.cod.s)

\* C5: the outcome of get_weather_by_city depends only on the integer value
\* of cod: two bodies that differ only in cod being a numeric string or the
\* equal number end in the same outcome, the same error kind or both a
\* report.
C5_CodRepresentationIndependent ==
    (TransportOk /\ HasTwin /\ FetchDone)
        => /\ FetchReturned = HandleResponse(Twin(env.provider)).ok
           /\ exc.kind = HandleResponse(Twin(env.provider)).exc.kind

\* C6: every transport failure of the HTTP request makes get_weather_by_city
\* end with a generic APIError whose status_code is the status of the
\* response the failure carries (the HTTP error status raise_for_status
\* rejected) and 500 when it carries none, and whose message is the
\* transport error's text.
C6_TransportFailureIsAPIError ==
    (~TransportOk /\ FetchDone)
        => /\ FetchRaised
           /\ exc.kind = "APIError"
           /\ exc.status_code =
                 IF env.provider.transport = "HTTPError"
                 THEN JInt(env.provider.status) ELSE JInt(500)
           /\ exc.message = env.provider.text

C6_Witness ==
    /\ env.provider.transport = "HTTPError"
    /\ env.provider.status = 404
    /\ FetchRaised
    /\ exc.status_code = JInt(404)

\* the number of commas in a text
RECURSIVE Commas(_)
Commas(s) ==
    IF Len(s) = 0 THEN 0
    ELSE (IF s[1] = "," THEN 1 ELSE 0) + Commas(Tail(s))

\* a country code is supplied by the --country option
CountrySupplied == ~IsNone(args.country) /\ Val(args.country) # <<>>

\* a location of the form "<city>,<country>": one comma, no blanks, and a
\* country after the comma
CityCommaCountry ==
    /\ Commas(args.location) = 1
    /\ " " \notin Range(args.location)
    /\ args.location[Len(args.location)] # ","

\* C7: the query term sent to the provider is "<city>,<country_code>" when a
\* country code is supplied and "<city>" alone otherwise: a location
\* "<city>,<country>" is sent as that city with that country, a comma-free
\* location with no country option is sent as it is, and a --country option
\* with a comma-free location is passed through as the country code.
C7_QueryTerm ==
    FetchDone =>
        /\ CityCommaCountry
              => /\ city \o <<",">> \o Val(country) = args.location
                 /\ requests[1].q = args.location
        /\ (Commas(args.location) = 0 /\ ~CountrySupplied)
              => requests[1].q = args.location
        /\ (Commas(args.location) = 0 /\ CountrySupplied)
              => /\ country = args.country
                 /\ requests[1].q = args.location \o <<",">> \o Val(args.country)

C7_Witness ==
    /\ FetchDone
    /\ args.location = <<"a", ",", "a">>
    /\ city = <<"a">>
    /\ country = Some(<<"a">>)
    /\ requests[1].q = <<"a", ",", "a">>

\* no API key came from the --api-key option or the environment variable
NoApiKey == IsNone(args.api_key) \/ args.api_key = Some("")

C9_Cod401PrintsCredentialMessage ==
    (TransportOk /\ CodIs(401, <<"4", "0", "1">>) /\ FetchDone /\ Exited)
        => (exit_code = Some(1) /\ stderr = <<CredentialLine>>)

\* the report reached its destination whole
OutputWritten ==
    IF IsNone(args.output)
    THEN stdout = <<Whole(json_output)>>
    ELSE file = [state |-> "written", content |-> json_output]

ErrorLines ==
    {i \in 1..Len(stderr) : stderr[i][1] \in {"Error: ", "Unexpected error: "}}

\* C10: get exits with code 0 exactly when fetching, formatting and writing
\* the output all succeed; every other run exits with code 1 after printing
\* exactly one error message to the error stream.
C10_ExitCode ==
    Exited =>
        /\ exit_code \in {Some(0), Some(1)}
        /\ exit_code = Some(0)
              <=> (FetchReturned /\ json_output # NoOutput /\ OutputWritten)
        /\ exit_code = Some(0) => ErrorLines = {}
        /\ exit_code = Some(1) => (Cardinality(ErrorLines) = 1 /\ Len(stderr) = 1)

\* a run whose file write fails
C10_Witness ==
    /\ Exited
    /\ FetchReturned
    /\ ~IsNone(args.output)
    /\ env.io = "open"
    /\ exit_code = Some(1)
    /\ stderr = <<<<"Unexpected error: ", "Permission denied">>>>

\* the output file as it was when get started
FileBefore == IF env.file_exists THEN OldFile ELSE NoFile

\* C11: in every run of get that ends with exit code 1 no report output has
\* been written: nothing was emitted on standard output and the --output
\* file was neither created, truncated nor partly written, whichever step
\* failed.
C11_NoOutputOnError ==
    (Exited /\ exit_code = Some(1)) => (stdout = <<>> /\ file = FileBefore)

\* what get echoes on standard output for arguments a in environment e when
\* the fetch and the formatting succeed and no --output is given
StdoutOf(a, e) ==
    Whole(JsonDumps(FormatWeatherData(HandleResponse(e.provider).value,
                                      a.units, e.now).value,
                    a.pretty))

\* the characters a chunk on a stream or the content of a file amounts to
Characters(text, nl) == [text |-> text, nl |-> nl]

ConfirmationLine == <<"Weather data saved to ", Val(args.output)>>

\* C12 as stated: the content written to the --output file is exactly the
\* text that would have been printed to standard output without --output,
\* standard output receives no report and the error stream one confirmation
\* line.
C12_FileEqualsStdout ==
    (Exited /\ exit_code = Some(0) /\ ~IsNone(args.output))
        => /\ file.state = "written"
           /\ Characters(file.content, FALSE)
                 = Characters(StdoutOf(args, env).text, StdoutOf(args, env).nl)
           /\ stdout = <<>>
           /\ stderr = <<ConfirmationLine>>

\* C12, amended: the content written to the --output file is the JSON text
\* that would have been printed to standard output without --output, less
\* the newline click.echo ends it with there; in the file case standard
\* output receives no report and the error stream one confirmation line,
\* and without --output the text goes to standard output and no file is
\* touched.
C12_FileHoldsPrintedJson ==
    (Exited /\ exit_code = Some(0))
        => IF ~IsNone(args.output)
           THEN /\ file.state = "written"
                /\ file.content = StdoutOf(args, env).text
                /\ StdoutOf(args, env).nl
                /\ stdout = <<>>
                /\ stderr = <<ConfirmationLine>>
           ELSE /\ stdout = <<StdoutOf(args, env)>>
                /\ file = FileBefore
                /\ stderr = <<>>

C12_Witness ==
    /\ Exited
    /\ exit_code = Some(0)
    /\ args.output = Some("out.json")
    /\ file = [state |-> "written", content |-> json_output]
    /\ json_output # NoOutput
    /\ stdout = <<>>

\* format_weather_data has returned in this run
FormatReturned == formatted_data # NoTree

Last(s) == s[Len(s)]

\* C13: with units metric the formatted output labels temperatures with the
\* degree sign and C and wind speed with a string ending in m/s; with units
\* imperial the labels are the degree sign and F, and mph; the labels
\* depend on units alone.
C13_UnitLabels ==
    FormatReturned
        => /\ args.units = "metric"
                => /\ formatted_data.temp_unit = "°C"
                   /\ Last(formatted_data.wind_speed) = "m/s"
           /\ args.units = "imperial"
                => /\ formatted_data.temp_unit = "°F"
                   /\ Last(formatted_data.wind_speed) = "mph"
           /\ args.units \in {"metric", "imperial"}

C13_Witness ==
    /\ FormatReturned
    /\ args.units = "imperial"
    /\ formatted_data.temp_unit = "°F"
    /\ Last(formatted_data.wind_speed) = "mph"
    /\ Exited

\* C14: a "rain" or "snow" entry of the provider's payload appears unchanged
\* as weather.rain or weather.snow in the formatted output of get, and an
\* absent entry appears as null.
C14_RainSnowPassThrough ==
    FormatReturned
        => /\ formatted_data.rain = env.provider.body.rain
           /\ formatted_data.snow = env.provider.body.snow

\* C15: format_weather_data has no failure path on a validated report:
\* validation guarantees a non-empty condition sequence and the lat and lon
\* coordinates, so once get_weather_by_city has returned the formatting
\* returns too.
C15_FormatNeverFails ==
    (FetchReturned /\ pc # "format")
        => /\ weather_data.weatherLen > 0
           /\ {"lat", "lon"} \subseteq weather_data.coord
           /\ FormatReturned

\* C16: every run that constructs a WeatherClient has that client's HTTP
\* session closed before the command exits.
C16_SessionClosedAtExit ==
    (Exited /\ client # NoClient) => client.session = "closed"

\* get_weather_by_city has been called in this run
FetchCalled == pc \notin {"check_key", "new_client", "split", "fetch"} /\ client # NoClient

\* C17: each call of get_weather_by_city issues at most one HTTP request: a
\* failure is not retried, and what the call returns comes from the response
\* to that request, not from an earlier result.
C17_AtMostOneRequest ==
    /\ Len(requests) <= 1
    /\ FetchCalled => Len(requests) = 1
    /\ weather_data # NoReport
          => /\ Len(requests) = 1
             /\ weather_data = WeatherResponse(env.provider.body)

C17_Witness ==
    /\ Exited
    /\ env.provider.transport = "Timeout"
    /\ Len(requests) = 1
    /\ exc.kind = "APIError"
    /\ exit_code = Some(1)

Blanks(s) == \A i \in 1..Len(s) : s[i] = " "

\* t is s without its leading and trailing blanks
IsTrimOf(t, s) ==
    /\ \E i \in 0..Len(s), j \in 0..Len(s) :
          /\ i + Len(t) + j = Len(s)
          /\ Blanks(SubSeq(s, 1, i))
          /\ SubSeq(s, i + 1, i + Len(t)) = t
          /\ Blanks(SubSeq(s, i + Len(t) + 1, Len(s)))
    /\ Len(t) > 0 => (t[1] # " " /\ t[Len(t)] # " ")

\* the positions of the commas of the location argument
CommaPositions == {i \in 1..Len(args.location) : args.location[i] = ","}

FirstComma == CHOOSE i \in CommaPositions : \A k \in CommaPositions : i <= k

\* where the second comma-separated part ends: before the second comma, or
\* with the location
SecondPartEnd ==
    LET later == CommaPositions \ {FirstComma}
    IN  IF later = {} THEN Len(args.location)
        ELSE (CHOOSE j \in later : \A k \in later : j <= k) - 1

\* C19: when the location argument holds a comma, the country passed to the
\* client is the trimmed second comma-separated part of it, in place of any
\* --country option, and the city the trimmed first part: an empty second
\* part makes the query the city with no country, and parts after the second
\* are dropped.
C19_CommaCountryReplacesOption ==
    (FetchDone /\ CommaPositions # {})
        => /\ ~IsNone(country)
           /\ IsTrimOf(Val(country),
                       SubSeq(args.location, FirstComma + 1, SecondPartEnd))
           /\ IsTrimOf(city, SubSeq(args.location, 1, FirstComma - 1))
           /\ requests[1].q = IF Val(country) = <<>> THEN city
                              ELSE city \o <<",">> \o Val(country)

C19_Witness ==
    /\ FetchDone
    /\ args.location = <<"a", ",">>
    /\ args.country = Some(<<"u">>)
    /\ country = Some(<<>>)
    /\ requests[1].q = <<"a">>

====
